---- MODULE Spec2Model ----
(***************************************************************************)
(* A model of `wac plug` (src/commands/plug.rs): PlugCommand::exec and     *)
(* plug_into_socket, over the composition graph of wac-graph.              *)
(***************************************************************************)
EXTENDS Integers, Sequences, FiniteSets, TLC

\* The largest number of --plug arguments of one invocation.
MaxPlugs == 3

----------------------------------------------------------------------------
(* The inputs of one invocation: package references and the files behind   *)
(* them.                                                                   *)

\* A path such as `..` has no file stem (Path::file_stem returns None).
NoStem == "<none>"

\* File stems of the local plug paths.
Stems == {"foo", "foo1", "plug:foo"}

\* Registry package names (`namespace:name`).
RegistryNames == {"plug:foo"}

\* enum PackageRef
LocalPath(stem) == [kind |-> "LocalPath", name |-> stem]
RegistryPackage(package_name) == [kind |-> "RegistryPackage", name |-> package_name]

PackageRef ==
    { LocalPath(stem) : stem \in Stems } \cup { RegistryPackage(n) : n \in RegistryNames }

Ex(n, t) == [name |-> n, ty |-> t]

\* The decoded contents of the plug files: the ordered export map of each.
PlugFiles ==
    { [valid |-> TRUE, exports |-> << Ex("b", "T1"), Ex("a", "T1") >>],
      [valid |-> TRUE, exports |-> << Ex("a", "T1") >>],
      [valid |-> TRUE, exports |-> << Ex("b", "T1") >>] }

\* A file that cannot be read, downloaded or decoded.
BadFile == [valid |-> FALSE, exports |-> << >>]

\* The --plug arguments: a reference and the file it resolves to.
PlugArgs ==
    { [ref |-> r, file |-> f] : r \in PackageRef, f \in PlugFiles }
        \cup { [ref |-> LocalPath("foo"), file |-> BadFile],
               [ref |-> RegistryPackage("plug:foo"), file |-> BadFile],
               [ref |-> LocalPath(NoStem), file |-> BadFile] }

\* The socket files: import map (name -> type) and ordered export names.
NoImports == [n \in {} |-> "T1"]

SocketFiles ==
    { [valid |-> FALSE, imports |-> NoImports, exports |-> << >>],
      [valid |-> TRUE, imports |-> NoImports, exports |-> << "b", "a" >>],
      [valid |-> TRUE, imports |-> [n \in {"a"} |-> "T1"], exports |-> << "a" >>],
      [valid |-> TRUE, imports |-> [n \in {"a", "b"} |-> "T1"],
       exports |-> << "b", "a" >>],
      [valid |-> TRUE, imports |-> [n \in {"a", "b"} |-> IF n = "a" THEN "T2" ELSE "T1"],
       exports |-> << "run" >>] }

----------------------------------------------------------------------------
(* Sequence helpers.                                                       *)

Range(s) == { s[i] : i \in DOMAIN s }

RECURSIVE SeqsUpTo(_, _)
SeqsUpTo(S, n) ==
    IF n = 0 THEN { << >> }
    ELSE LET shorter == SeqsUpTo(S, n - 1)
         IN  shorter \cup { Append(s, x) : s \in { t \in shorter : Len(t) = n - 1 }, x \in S }

----------------------------------------------------------------------------
(* wac-types / wac-graph, as PlugCommand uses them.                        *)

\* SubtypeChecker::is_subtype(plug_ty, socket_ty).is_ok()
is_subtype(plug_ty, socket_ty) == plug_ty = socket_ty

\* CompositionGraph::new()
EmptyGraph ==
    [packages |-> << >>, nodes |-> << >>, arguments |-> {}, exports |-> << >>]

Ok(g, id) == [graph |-> g, id |-> id, err |-> "none"]
Err(g, e) == [graph |-> g, id |-> 0, err |-> e]

\* CompositionGraph::register_package: the new PackageId is the table index.
register_package(g, package) ==
    Ok([g EXCEPT !.packages = Append(@, package)], Len(g.packages) + 1)

\* CompositionGraph::instantiate: a new instance node, no arguments.
instantiate(g, package) ==
    Ok([g EXCEPT !.nodes = Append(@, [kind |-> "instance", package |-> package,
                                      instance |-> 0, export |-> ""])],
       Len(g.nodes) + 1)

\* The export names of the package an instance node instantiates.
ExportNames(g, instance) ==
    { e.name : e \in Range(g.packages[g.nodes[instance].package].exports) }

\* CompositionGraph::alias_instance_export
alias_instance_export(g, instance, name) ==
    IF name \notin ExportNames(g, instance) THEN Err(g, "UnknownExport")
    ELSE LET have == { n \in DOMAIN g.nodes :
                         /\ g.nodes[n].kind = "alias"
                         /\ g.nodes[n].instance = instance
                         /\ g.nodes[n].export = name }
         IN  IF have # {} THEN Ok(g, CHOOSE n \in have : TRUE)
             ELSE Ok([g EXCEPT !.nodes = Append(@, [kind |-> "alias", package |-> 0,
                                                    instance |-> instance,
                                                    export |-> name])],
                     Len(g.nodes) + 1)

\* CompositionGraph::set_instantiation_argument
set_instantiation_argument(g, instance, name, source) ==
    IF name \notin DOMAIN g.packages[g.nodes[instance].package].imports
    THEN Err(g, "UnknownImport")
    ELSE IF \E e \in g.arguments : e.instance = instance /\ e.name = name
    THEN Err(g, "AlreadySet")
    ELSE Ok([g EXCEPT !.arguments =
                 @ \cup {[instance |-> instance, name |-> name, source |-> source]}], 0)

\* CompositionGraph::get_instantiation_arguments
get_instantiation_arguments(g, instance) ==
    { e \in g.arguments : e.instance = instance }

\* CompositionGraph::export
export(g, node, name) ==
    IF \E i \in DOMAIN g.exports : g.exports[i].name = name
    THEN Err(g, "DuplicateExport")
    ELSE Ok([g EXCEPT !.exports = Append(@, [name |-> name, node |-> node])], 0)

----------------------------------------------------------------------------
(* plug_into_socket                                                        *)

\* Package::from_file / Package::from_bytes: the package a valid file decodes to.
\* `path` is the position of the --plug argument it was read from (0: the socket).
Package(name, path, imports, exports) ==
    [name |-> name, path |-> path, imports |-> imports, exports |-> exports]

\* MatchedNames without the subtype check: every export the socket imports under
\* the same name is taken.
MatchedNamesUnchecked(plug_exports, socket_imports) ==
    LET Matches(e) == e.name \in DOMAIN socket_imports
        sel == SelectSeq(plug_exports, Matches)
    IN  [k \in DOMAIN sel |-> sel[k].name]

\* The export names of the plug that the socket imports under the same name and
\* the subtype checker accepts, in the plug's export order.
MatchedNames(plug_exports, socket_imports) ==
    LET Matches(e) == /\ e.name \in DOMAIN socket_imports
                      /\ is_subtype(e.ty, socket_imports[e.name])
        sel == SelectSeq(plug_exports, Matches)
    IN  [k \in DOMAIN sel |-> sel[k].name]

\* The export names of the plug the subtype checker is asked about.
QueriedNames(plug_exports, socket_imports) ==
    { e.name : e \in { x \in Range(plug_exports) : x.name \in DOMAIN socket_imports } }

\* WirePlugs with the instantiation inside the loop: one instance per matched
\* name.
RECURSIVE WirePlugsInstancePerName(_, _, _, _, _)
WirePlugsInstancePerName(g, plug, plug_instantiation, names, socket_inst) ==
    IF names = << >> THEN Ok(g, plug_instantiation)
    ELSE LET inst  == instantiate(g, plug)
             alias == alias_instance_export(inst.graph, inst.id, Head(names))
             set   == set_instantiation_argument(alias.graph, socket_inst,
                                                 Head(names), alias.id)
         IN  IF alias.err # "none" THEN Err(alias.graph, alias.err)
             ELSE IF set.err # "none" THEN Err(set.graph, set.err)
             ELSE WirePlugsInstancePerName(set.graph, plug, inst.id, Tail(names),
                                           socket_inst)

\* The wiring loop: instantiate the plug lazily, once, and set one argument of the
\* socket instance per matched name. plug_instantiation = 0 is None.
RECURSIVE WirePlugs(_, _, _, _, _)
WirePlugs(g, plug, plug_instantiation, names, socket_inst) ==
    IF names = << >> THEN Ok(g, plug_instantiation)
    ELSE LET inst  == IF plug_instantiation = 0 THEN instantiate(g, plug)
                      ELSE Ok(g, plug_instantiation)
             alias == alias_instance_export(inst.graph, inst.id, Head(names))
             set   == set_instantiation_argument(alias.graph, socket_inst,
                                                 Head(names), alias.id)
         IN  IF alias.err # "none" THEN Err(alias.graph, alias.err)
             ELSE IF set.err # "none" THEN Err(set.graph, set.err)
             ELSE WirePlugs(set.graph, plug, inst.id, Tail(names), socket_inst)

\* plug_into_socket with the plug instantiated right after its registration,
\* whether or not an export matches.
plug_into_socket_eager(name, arg, path, socket_pkg, socket_inst, g) ==
    IF ~arg.file.valid
    THEN [graph |-> g, err |-> "InvalidPackage", cache |-> FALSE, queried |-> {}]
    ELSE LET reg   == register_package(g, Package(name, path, NoImports, arg.file.exports))
             inst  == instantiate(reg.graph, reg.id)
             simps == reg.graph.packages[socket_pkg].imports
             names == MatchedNames(arg.file.exports, simps)
             wired == WirePlugs(inst.graph, reg.id, inst.id, names, socket_inst)
         IN  [graph |-> wired.graph, err |-> wired.err, cache |-> TRUE,
              queried |-> QueriedNames(arg.file.exports, simps)]

\* fn plug_into_socket(name, plug_path, socket, socket_instantiation, graph).
\* `arg` is the --plug argument at position `path`. The result also says whether a
\* cache was created and which exports were put to the subtype checker.
plug_into_socket(name, arg, path, socket_pkg, socket_inst, g) ==
    IF ~arg.file.valid
    THEN [graph |-> g, err |-> "InvalidPackage", cache |-> FALSE, queried |-> {}]
    ELSE LET reg   == register_package(g, Package(name, path, NoImports, arg.file.exports))
             simps == reg.graph.packages[socket_pkg].imports
             names == MatchedNames(arg.file.exports, simps)
             wired == WirePlugs(reg.graph, reg.id, 0, names, socket_inst)
         IN  [graph |-> wired.graph, err |-> wired.err, cache |-> TRUE,
              queried |-> QueriedNames(arg.file.exports, simps)]

----------------------------------------------------------------------------
(* PlugCommand::exec                                                       *)

VARIABLES
    plugs,                \* self.plugs
    socket_file,          \* the file self.socket resolves to
    graph,                \* the CompositionGraph
    socket,               \* PackageId of the socket (0: not registered yet)
    socket_instantiation, \* NodeId of the socket instance (0: none yet)
    plugs_by_name,        \* HashMap: name -> positions of the plugs of that name
    pending,              \* the keys the map's iterator has not yielded yet
    name,                 \* the key of the group being plugged
    i,                    \* the position of the next plug within that group
    caches,               \* the number of subtype caches created so far
    query_caches,         \* the caches (by number) that subtype queries have used
    pc,                   \* the position in exec
    error                 \* the error exec returned ("none": none)

vars == << plugs, socket_file, graph, socket, socket_instantiation, plugs_by_name,
           pending, name, i, caches, query_caches, pc, error >>

NoMap == [k \in {} |-> << >>]

\* The name a plug is grouped under: the registry package name or the file stem.
BaseName(ref) == ref.name

\* Registry plugs of one name resolve to the same download.
SameDownload(ps) ==
    \A p \in DOMAIN ps, q \in DOMAIN ps :
        (ps[p].ref.kind = "RegistryPackage" /\ ps[p].ref = ps[q].ref)
            => ps[p].file = ps[q].file

Init ==
    /\ plugs \in { ps \in SeqsUpTo(PlugArgs, MaxPlugs) : Len(ps) >= 1 /\ SameDownload(ps) }
    /\ socket_file \in SocketFiles
    /\ graph = EmptyGraph
    /\ socket = 0
    /\ socket_instantiation = 0
    /\ plugs_by_name = NoMap
    /\ pending = {}
    /\ name = ""
    /\ i = 0
    /\ caches = 0
    /\ query_caches = {}
    /\ pc = "socket"
    /\ error = "none"

Fail(e) == pc' = "failed" /\ error' = e

\* Read, decode, register and instantiate the socket.
LoadSocket ==
    /\ pc = "socket"
    /\ IF ~socket_file.valid
       THEN /\ Fail("InvalidPackage")
            /\ UNCHANGED << graph, socket, socket_instantiation >>
       ELSE LET reg  == register_package(graph, Package("socket", 0, socket_file.imports,
                                             [k \in DOMAIN socket_file.exports |->
                                                 Ex(socket_file.exports[k], "T1")]))
                inst == instantiate(reg.graph, reg.id)
            IN  /\ graph' = inst.graph
                /\ socket' = reg.id
                /\ socket_instantiation' = inst.id
                /\ pc' = "collect"
                /\ UNCHANGED error
    /\ UNCHANGED << plugs, socket_file, plugs_by_name, pending, name, i, caches,
                    query_caches >>

\* The positions of the plugs grouped under name k, in input order.
RECURSIVE GroupOf(_, _, _)
GroupOf(ps, k, from) ==
    IF from > Len(ps) THEN << >>
    ELSE IF BaseName(ps[from].ref) = k THEN << from >> \o GroupOf(ps, k, from + 1)
    ELSE GroupOf(ps, k, from + 1)

\* Collect the plugs by their names.
CollectPlugs ==
    /\ pc = "collect"
    /\ IF \E p \in DOMAIN plugs : plugs[p].ref.name = NoStem
       THEN /\ Fail("InvalidPlugName")
            /\ UNCHANGED << plugs_by_name, pending >>
       ELSE /\ plugs_by_name' =
                   [k \in { BaseName(plugs[p].ref) : p \in DOMAIN plugs } |->
                       GroupOf(plugs, k, 1)]
            /\ pending' = DOMAIN plugs_by_name'
            /\ pc' = "plug"
            /\ UNCHANGED error
    /\ UNCHANGED << plugs, socket_file, graph, socket, socket_instantiation, name, i,
                    caches, query_caches >>

\* The outer loop takes the next group from the map's iterator: any key not yet
\* yielded (the iteration order of a HashMap is unspecified).
NextGroup ==
    /\ pc = "plug"
    /\ name = ""
    /\ \E k \in pending :
        /\ name' = k
        /\ pending' = pending \ {k}
    /\ i' = 0
    /\ UNCHANGED << plugs, socket_file, graph, socket, socket_instantiation,
                    plugs_by_name, caches, query_caches, pc, error >>

\* FinalName with the index counted from one.
FinalNameOneBased(ref, group_name, index, group_len) ==
    LET base == IF ref.kind = "RegistryPackage" THEN ref.name
                ELSE "plug:" \o group_name
    IN  IF group_len > 1 THEN base \o ToString(index + 1) ELSE base

\* The name a plug is registered under.
FinalName(ref, group_name, index, group_len) ==
    LET base == IF ref.kind = "RegistryPackage" THEN ref.name
                ELSE "plug:" \o group_name
    IN  IF group_len > 1 THEN base \o ToString(index) ELSE base

\* One turn of the inner loop: plug the i-th plug of the group into the socket.
PlugNext ==
    /\ pc = "plug"
    /\ name # ""
    /\ LET plug_refs == plugs_by_name[name]
           path == plug_refs[i + 1]
           arg  == plugs[path]
           res  == IF arg.ref.kind = "RegistryPackage" /\ ~arg.file.valid
                   THEN [graph |-> graph, err |-> "NotFound", cache |-> FALSE,
                         queried |-> {}]
                   ELSE plug_into_socket(FinalName(arg.ref, name, i, Len(plug_refs)),
                                         arg, path, socket, socket_instantiation, graph)
       IN  /\ graph' = res.graph
           /\ caches' = IF res.cache THEN caches + 1 ELSE caches
           /\ query_caches' = IF res.queried # {} THEN query_caches \cup {caches + 1}
                              ELSE query_caches
           /\ IF res.err # "none"
              THEN /\ Fail(res.err)
                   /\ UNCHANGED << name, i >>
              ELSE /\ UNCHANGED << pc, error >>
                   /\ IF i + 1 < Len(plug_refs)
                      THEN i' = i + 1 /\ UNCHANGED name
                      ELSE i' = 0 /\ name' = ""
    /\ UNCHANGED << plugs, socket_file, socket, socket_instantiation, plugs_by_name,
                    pending >>

\* CheckPlugged without the check: exec goes on to the exports in any case.
CheckPluggedAlwaysPasses ==
    /\ pc = "plug"
    /\ name = ""
    /\ pending = {}
    /\ pc' = "export"
    /\ UNCHANGED << plugs, socket_file, graph, socket, socket_instantiation,
                    plugs_by_name, pending, name, i, caches, query_caches, error >>

\* Check we've actually done any plugging.
CheckPlugged ==
    /\ pc = "plug"
    /\ name = ""
    /\ pending = {}
    /\ IF get_instantiation_arguments(graph, socket_instantiation) = {}
       THEN Fail("NoMatchingImports")
       ELSE pc' = "export" /\ UNCHANGED error
    /\ UNCHANGED << plugs, socket_file, graph, socket, socket_instantiation,
                    plugs_by_name, pending, name, i, caches, query_caches >>

\* Alias and export the socket's exports, in the socket's export order.
RECURSIVE ExportAll(_, _, _)
ExportAll(g, instance, names) ==
    IF names = << >> THEN Ok(g, 0)
    ELSE LET alias == alias_instance_export(g, instance, Head(names))
             exp   == export(alias.graph, alias.id, Head(names))
         IN  IF alias.err # "none" THEN Err(alias.graph, alias.err)
             ELSE IF exp.err # "none" THEN Err(exp.graph, exp.err)
             ELSE ExportAll(exp.graph, instance, Tail(names))

\* ExportSocket with the export names taken last to first instead of in the
\* socket's export order.
ExportSocketReversed ==
    /\ pc = "export"
    /\ LET exps == graph.packages[socket].exports
           res  == ExportAll(graph, socket_instantiation,
                             [k \in DOMAIN exps |-> exps[Len(exps) + 1 - k].name])
       IN  /\ graph' = res.graph
           /\ IF res.err # "none" THEN Fail(res.err)
              ELSE pc' = "encode" /\ UNCHANGED error
    /\ UNCHANGED << plugs, socket_file, socket, socket_instantiation, plugs_by_name,
                    pending, name, i, caches, query_caches >>

\* Export all exports from the socket component.
ExportSocket ==
    /\ pc = "export"
    /\ LET exps == graph.packages[socket].exports
           res  == ExportAll(graph, socket_instantiation,
                             [k \in DOMAIN exps |-> exps[k].name])
       IN  /\ graph' = res.graph
           /\ IF res.err # "none" THEN Fail(res.err)
              ELSE pc' = "encode" /\ UNCHANGED error
    /\ UNCHANGED << plugs, socket_file, socket, socket_instantiation, plugs_by_name,
                    pending, name, i, caches, query_caches >>

\* Refuse binary output to a terminal; otherwise encode and write the output.
Encode ==
    /\ pc = "encode"
    /\ \E binary_output_to_terminal \in BOOLEAN :
        IF binary_output_to_terminal THEN Fail("BinaryToTerminal")
        ELSE pc' = "done" /\ UNCHANGED error
    /\ UNCHANGED << plugs, socket_file, graph, socket, socket_instantiation,
                    plugs_by_name, pending, name, i, caches, query_caches >>

Next ==
    \/ LoadSocket
    \/ CollectPlugs
    \/ NextGroup
    \/ PlugNext
    \/ CheckPlugged
    \/ ExportSocket
    \/ Encode

Spec == Init /\ [][Next]_vars

----------------------------------------------------------------------------
(* Vocabulary of the properties.                                           *)

\* The socket instance's arguments.
SocketArguments == get_instantiation_arguments(graph, socket_instantiation)

\* The package whose instance the alias node `n` refers to.
SourcePackage(n) == graph.packages[graph.nodes[graph.nodes[n].instance].package]

\* The instance nodes of package p.
InstancesOf(p) ==
    { n \in DOMAIN graph.nodes :
        graph.nodes[n].kind = "instance" /\ graph.nodes[n].package = p }

\* Export e of a plug fits the socket's import of the same name.
Fits(e) ==
    /\ e.name \in DOMAIN socket_file.imports
    /\ is_subtype(e.ty, socket_file.imports[e.name])

\* Some export of some plug fits a socket import.
AnyMatch ==
    \E p \in DOMAIN plugs :
        plugs[p].file.valid /\ \E e \in Range(plugs[p].file.exports) : Fits(e)

\* exec is past the completeness check.
Finalizing == pc \in {"export", "encode", "done"} \/ error = "BinaryToTerminal"

\* exec has reached the encode step.
ReachedEncode == pc \in {"encode", "done"} \/ error = "BinaryToTerminal"

\* Every plug has been processed and the completeness check is next.
AllPlugged == pc = "plug" /\ name = "" /\ pending = {}

\* The plug the inner loop is at.
CurrentPath == plugs_by_name[name][i + 1]

----------------------------------------------------------------------------
\* C1: when exec reaches the encode step, the top-level exports of the graph are
\* the socket's export names in the socket's order, each the alias of the export
\* of that name on the one socket instance.
C1_ExportsAreSocketExports ==
    ReachedEncode =>
        /\ Len(graph.exports) = Len(socket_file.exports)
        /\ \A k \in DOMAIN graph.exports :
            /\ graph.exports[k].name = socket_file.exports[k]
            /\ graph.nodes[graph.exports[k].node] =
                   [kind |-> "alias", package |-> 0,
                    instance |-> socket_instantiation,
                    export |-> socket_file.exports[k]]
        /\ graph.nodes[socket_instantiation].package = socket
        /\ graph.packages[socket].name = "socket"

\* A finished run with two socket exports, one of them also wired from a plug that
\* exports both names.
C1_Witness ==
    /\ pc = "done"
    /\ socket_file.exports = << "b", "a" >>
    /\ \E e \in SocketArguments :
        /\ e.name = "a"
        /\ Len(SourcePackage(e.source).exports) = 2

\* C2: when every plug has been processed and no plug export fits a socket
\* import, the next step fails with NoMatchingImports and leaves the graph
\* without exports, so neither finalization nor encode is reached; and a run
\* that failed with NoMatchingImports has no argument on the socket instance.
C2_NoMatchState ==
    /\ Finalizing => AnyMatch
    /\ error = "NoMatchingImports" =>
           SocketArguments = {} /\ graph.exports = << >> /\ pc = "failed"

C2_NoMatchStep ==
    (AllPlugged /\ ~AnyMatch) =>
        (error' = "NoMatchingImports" /\ pc' = "failed" /\ graph' = graph)

\* C2: with no fitting plug export the completeness check fails with
\* NoMatchingImports, finalization and encode are never reached, and the failure
\* is raised only with no argument set on the socket instance.
C2_NoMatchingImports == [](C2_NoMatchState) /\ [][C2_NoMatchStep]_vars

\* The socket has no imports, two plugs were registered, the run failed.
C2_Witness ==
    /\ error = "NoMatchingImports"
    /\ socket_file.imports = NoImports
    /\ Len(graph.packages) = 3

\* C4: every argument of the socket instance under name n is the alias of the
\* export named n of an instance of a plug package, and that export fits the
\* socket's import n.
C4_ExactNameAndType ==
    \A e \in graph.arguments :
        /\ e.instance = socket_instantiation
        /\ graph.nodes[e.source].kind = "alias"
        /\ graph.nodes[e.source].export = e.name
        /\ graph.nodes[graph.nodes[e.source].instance].kind = "instance"
        /\ SourcePackage(e.source).path >= 1
        /\ \E x \in Range(SourcePackage(e.source).exports) :
            x.name = e.name /\ Fits(x)

\* The socket imports only `a`; a plug exporting b and a, both of the import's
\* type, is wired to `a` alone.
C4_Witness ==
    /\ pc = "done"
    /\ DOMAIN socket_file.imports = {"a"}
    /\ \E e \in graph.arguments :
        /\ e.name = "a"
        /\ Ex("b", socket_file.imports["a"]) \in Range(SourcePackage(e.source).exports)
    /\ Cardinality(graph.arguments) = 1

\* C5: a package has at most one instance node, the socket package exactly one,
\* and the arguments a plug package supplies all alias its one instance.
C5_SingleInstantiation ==
    /\ \A p \in DOMAIN graph.packages : Cardinality(InstancesOf(p)) <= 1
    /\ socket # 0 => InstancesOf(socket) = {socket_instantiation}
    /\ \A e1 \in graph.arguments, e2 \in graph.arguments :
        SourcePackage(e1.source).path = SourcePackage(e2.source).path
            => graph.nodes[e1.source].instance = graph.nodes[e2.source].instance

\* One plug supplies two arguments of the socket instance.
C5_Witness ==
    \E e1 \in graph.arguments, e2 \in graph.arguments :
        /\ e1.name # e2.name
        /\ graph.nodes[e1.source].instance = graph.nodes[e2.source].instance
        /\ Cardinality(InstancesOf(graph.nodes[graph.nodes[e1.source].instance].package)) = 1

\* C6: processing a valid plug none of whose exports fits a socket import adds
\* its package node, adds no node to the graph and leaves the arguments as they
\* were.
C6_Step ==
    (/\ pc = "plug"
     /\ name # ""
     /\ plugs[CurrentPath].file.valid
     /\ \A e \in Range(plugs[CurrentPath].file.exports) : ~Fits(e))
        => /\ Len(graph'.packages) = Len(graph.packages) + 1
           /\ SubSeq(graph'.packages, 1, Len(graph.packages)) = graph.packages
           /\ graph'.packages[Len(graph'.packages)].path = CurrentPath
           /\ graph'.nodes = graph.nodes
           /\ graph'.arguments = graph.arguments
           /\ error' = "none"

\* C6: every step that processes a plug with no fitting export registers the
\* package and creates no instance node and no argument.
C6_LazyInstantiation == [][C6_Step]_vars

\* The socket imports a and b. A plug whose only export `a` the checker rejects
\* is registered and has no instance, while another plug is wired to b.
C6_Witness ==
    /\ DOMAIN socket_file.imports = {"a", "b"}
    /\ \E p \in DOMAIN graph.packages :
        /\ graph.packages[p].path >= 1
        /\ graph.packages[p].exports = << Ex("a", "T1") >>
        /\ ~is_subtype("T1", socket_file.imports["a"])
        /\ InstancesOf(p) = {}
    /\ \E e \in SocketArguments : e.name = "b"

----------------------------------------------------------------------------
(* Names.                                                                  *)

\* The plugs grouped with plug p: those of the same base name, local or registry.
Group(p) == { q \in DOMAIN plugs : BaseName(plugs[q].ref) = BaseName(plugs[p].ref) }

\* The local-path plugs that share the stem of the local-path plug p.
SameStem(p) ==
    { q \in DOMAIN plugs :
        plugs[q].ref.kind = "LocalPath" /\ plugs[q].ref.name = plugs[p].ref.name }

\* The zero-based position of p within the set S of positions.
PositionIn(p, S) == Cardinality({ q \in S : q < p })

Indexed(base, p, S) ==
    IF Cardinality(S) > 1 THEN base \o ToString(PositionIn(p, S)) ELSE base

\* The registered plug packages.
PlugPackages == { k \in DOMAIN graph.packages : graph.packages[k].path >= 1 }

\* C8 as stated: a registered local-path plug of stem s is named plug:s followed,
\* when two or more local-path plugs have the stem s, by its position among them;
\* a registry plug's name gets no plug: prefix.
C8_IndexAmongSameStem ==
    \A k \in PlugPackages :
        LET p == graph.packages[k].path
            ref == plugs[p].ref
        IN  IF ref.kind = "LocalPath"
            THEN graph.packages[k].name = Indexed("plug:" \o ref.name, p, SameStem(p))
            ELSE graph.packages[k].name = Indexed(ref.name, p, Group(p))

\* C8, amended: the index is the position within the group of all plugs, local or
\* registry, of the same base name, and it is appended when that group has more
\* than one member.
C8_IndexWithinGroup ==
    \A k \in PlugPackages :
        LET p == graph.packages[k].path
            ref == plugs[p].ref
        IN  graph.packages[k].name =
                Indexed(IF ref.kind = "LocalPath" THEN "plug:" \o ref.name ELSE ref.name,
                        p, Group(p))

\* Two local plugs of one stem with a registry plug of that name between them:
\* all three are registered, the locals under the indexes 0 and 2.
C8_Witness ==
    /\ Len(plugs) = 3
    /\ plugs[1].ref = LocalPath("plug:foo")
    /\ plugs[2].ref = RegistryPackage("plug:foo")
    /\ plugs[3].ref = LocalPath("plug:foo")
    /\ { graph.packages[k].name : k \in PlugPackages } =
           {"plug:plug:foo0", "plug:foo1", "plug:plug:foo2"}

\* C10: the packages of a run are registered under pairwise distinct names.
C10_DistinctNames ==
    \A k \in DOMAIN graph.packages, l \in DOMAIN graph.packages :
        k # l => graph.packages[k].name # graph.packages[l].name

----------------------------------------------------------------------------
(* The subtype cache.                                                      *)

\* C9: one run creates one subtype cache and every query uses it.
C9_OneCachePerRun ==
    /\ caches <= 1
    /\ query_caches \subseteq {1}
    /\ Finalizing => caches = 1

----------------------------------------------------------------------------
(* Order.                                                                  *)

\* The matched names of the plug at position p.
MatchedOf(p) ==
    IF plugs[p].file.valid THEN Range(MatchedNames(plugs[p].file.exports, socket_file.imports))
    ELSE {}

\* C3: when a plug's attempt fails with AlreadySet, every argument it collides
\* with was wired from a plug earlier in the input order, and a run in which two
\* plugs match the same import never gets past the plugging.
C3_FirstInInputOrderWins ==
    /\ error = "AlreadySet" =>
           \A e \in SocketArguments :
               (e.name \in MatchedOf(CurrentPath)
                    /\ SourcePackage(e.source).path # CurrentPath)
                   => SourcePackage(e.source).path < CurrentPath
    /\ Finalizing =>
           \A p \in DOMAIN plugs, q \in DOMAIN plugs :
               p # q => MatchedOf(p) \cap MatchedOf(q) = {}

\* The keys of the map in the order of their first insertion.
RECURSIVE InsertionOrder(_)
InsertionOrder(from) ==
    IF from > Len(plugs) THEN << >>
    ELSE IF \E q \in 1..(from - 1) : BaseName(plugs[q].ref) = BaseName(plugs[from].ref)
    THEN InsertionOrder(from + 1)
    ELSE << BaseName(plugs[from].ref) >> \o InsertionOrder(from + 1)

\* The calls of plug_into_socket when the groups are visited in the order `keys`.
RECURSIVE Calls(_)
Calls(keys) ==
    IF keys = << >> THEN << >>
    ELSE [j \in DOMAIN plugs_by_name[Head(keys)] |->
             [key |-> Head(keys), index |-> j - 1, path |-> plugs_by_name[Head(keys)][j]]]
         \o Calls(Tail(keys))

\* The graph and the error after these calls, from graph g.
RECURSIVE RunCalls(_, _)
RunCalls(calls, g) ==
    IF calls = << >> THEN [graph |-> g, err |-> "none"]
    ELSE LET c   == Head(calls)
             arg == plugs[c.path]
             res == IF arg.ref.kind = "RegistryPackage" /\ ~arg.file.valid
                    THEN [graph |-> g, err |-> "NotFound"]
                    ELSE plug_into_socket(
                             FinalName(arg.ref, c.key, c.index, Len(plugs_by_name[c.key])),
                             arg, c.path, socket, socket_instantiation, g)
         IN  IF res.err # "none" THEN [graph |-> res.graph, err |-> res.err]
             ELSE RunCalls(Tail(calls), res.graph)

\* The graph right after the socket was registered and instantiated.
SocketGraph ==
    [EmptyGraph EXCEPT !.packages = << graph.packages[1] >>,
                       !.nodes = << graph.nodes[1] >>]

\* The result of the resolution when the groups are visited in insertion order.
InOrderResult ==
    LET r == RunCalls(Calls(InsertionOrder(1)), SocketGraph)
    IN  IF r.err = "none" /\ get_instantiation_arguments(r.graph, socket_instantiation) = {}
        THEN [graph |-> r.graph, err |-> "NoMatchingImports"]
        ELSE r

\* The resolution has ended: at the export step, or failed.
Resolved ==
    \/ pc = "export"
    \/ pc = "failed" /\ socket # 0 /\ error \notin {"InvalidPlugName", "BinaryToTerminal"}

\* C7: the result of the resolution is the one of the run that visits the groups
\* in insertion order, whatever order the map is iterated in: the same failure,
\* or the same graph.
C7_Deterministic ==
    Resolved =>
        /\ error = InOrderResult.err
        /\ error = "none" => graph = InOrderResult.graph

====
